---- MODULE Spec2Model ----
(***************************************************************************)
(* LearningRateWarmRestarter (keras_contrib/callbacks/warm_restart.py):    *)
(* a Keras callback that, at the start of every epoch, recomputes the      *)
(* optimizer's learning rate by cosine annealing with warm restarts.       *)
(*                                                                         *)
(* Numbers.  Python numbers are modelled as exact rationals <<n, d>> in    *)
(* lowest terms with d > 0, so that 5 == 5.0 and 2 * 1.5 == 3 behave as in *)
(* Python.  The inputs are chosen among values that binary floating point  *)
(* represents exactly (integers, halves) for the period and the factor;    *)
(* rounding of the learning rate itself (float64, then the backend's       *)
(* float32 variable) is not modelled.                                      *)
(*                                                                         *)
(* Cosine.  np.cos(x * pi) is modelled by range reduction (even, period 2, *)
(* cos(pi - y) = -cos(y)) followed by Bhaskara's rational approximation    *)
(* (1 - 4r^2) / (1 + r^2) on [0, 1/2]; it is exact at 0, 1/3 and 1/2,      *)
(* stays within 0.002 of the cosine, is strictly decreasing on [0, 1] and  *)
(* has range [-1, 1].                                                      *)
(***************************************************************************)
EXTENDS Integers, Sequences, FiniteSets, TLC

\* ------------------------------------------------------------------ bounds
\* Largest epoch index passed by a caller that may pass any epoch.
MaxEpoch == 7
\* Largest number of on_epoch_begin calls of such a caller.
MaxCalls == 4
\* Last epoch of a training run that passes 0, 1, 2, ... in order.
MaxFitEpoch == 16

\* ------------------------------------------------------- rational numbers
RECURSIVE GCD(_, _)
GCD(a, b) == IF b = 0 THEN a ELSE GCD(b, a % b)

Abs(i) == IF i < 0 THEN -i ELSE i

Rat(n, d) ==
    LET g == GCD(Abs(n), Abs(d))
        s == IF d < 0 THEN -1 ELSE 1
    IN  <<(s * n) \div g, (s * d) \div g>>

RInt(i) == <<i, 1>>
Zero == RInt(0)
One == RInt(1)
Two == RInt(2)
Half == Rat(1, 2)

RAdd(a, b) == Rat(a[1] * b[2] + b[1] * a[2], a[2] * b[2])
RSub(a, b) == Rat(a[1] * b[2] - b[1] * a[2], a[2] * b[2])
RMul(a, b) == Rat(a[1] * b[1], a[2] * b[2])
RDiv(a, b) == Rat(a[1] * b[2], a[2] * b[1])
REq(a, b) == a[1] * b[2] = b[1] * a[2]
RLt(a, b) == a[1] * b[2] < b[1] * a[2]
RLe(a, b) == a[1] * b[2] <= b[1] * a[2]
RNeg(a) == <<-a[1], a[2]>>
RAbs(a) == <<Abs(a[1]), a[2]>>
RFloor(a) == RInt(a[1] \div a[2])
IsInt(a) == a[2] = 1

\* ------------------------------------------------------------------ cosine
\* x mod 2, for x >= 0.
RMod2(x) == Rat(x[1] % (2 * x[2]), x[2])

\* Bhaskara's approximation of cos(r * pi) for 0 <= r <= 1/2.
Bhaskara(r) ==
    LET r2 == RMul(r, r)
    IN  RDiv(RSub(One, RMul(RInt(4), r2)), RAdd(One, r2))

\* np.cos(x * np.pi)
CosPi(x) ==
    LET r == RMod2(RAbs(x))
        y == IF RLt(One, r) THEN RSub(Two, r) ELSE r
    IN  IF RLe(y, Half) THEN Bhaskara(y) ELSE RNeg(Bhaskara(RSub(One, y)))

\* --------------------------------------------------------- the callback
\* `factor < 1` of __init__; the buggy variant rejects factor == 1 as well.
FactorInvalidStrict(f) == RLe(f, One)
FactorInvalid(f) == RLt(f, One)

\* `not hasattr(self.model.optimizer, 'lr')`; the variant never checks.
MissingLrAttrUnchecked(h) == FALSE
MissingLrAttr(h) == ~h

\* `t == self.num_restart_epochs`; the variant restarts on t >= period.
IsRestartAtLeast(t0, p) == RLe(p, t0)
IsRestart(t0, p) == REq(t0, p)

\* `self.next_restart_epochs += self.num_restart_epochs`; the variant assigns.
NextOriginAssigned(n, p) == p
NextOrigin(n, p) == RAdd(n, p)

\* `self.num_restart_epochs *= self.factor`; the variant adds.
NextPeriodAdded(p, f) == RAdd(p, f)
NextPeriod(p, f) == RMul(p, f)

\* `t = 0` of the restart branch; the variant forgets the reset.
TNotReset(t0) == t0
TAfterRestart(t0) == Zero

\* `t / self.num_restart_epochs`; the variant truncates (floor division).
RatioFloor(t1, p) == RFloor(RDiv(t1, p))
Ratio(t1, p) == RDiv(t1, p)

\* min_lr + 0.5 * (max_lr - min_lr) * (1. + np.cos(t / period * np.pi));
\* the variant drops the 0.5.
NewLrNoHalf(lo, hi, t1, p) ==
    RAdd(lo, RMul(RSub(hi, lo), RAdd(One, CosPi(Ratio(t1, p)))))
NewLr(lo, hi, t1, p) ==
    RAdd(lo, RMul(RMul(Half, RSub(hi, lo)), RAdd(One, CosPi(Ratio(t1, p)))))

\* ------------------------------------------------------------------ inputs
MinLrs == {Zero, Rat(1, 10)}
MaxLrs == {Rat(1, 10), Rat(1, 20)}
Periods == {RInt(1), RInt(2), RInt(3), RInt(5), Rat(5, 2)}
Factors == {Rat(1, 2), RInt(1), Rat(3, 2), RInt(2), RInt(3)}

\* The optimizer has no learning rate (no `lr` attribute).
NoLr == <<0, 0>>
\* The learning rate of the optimizer before the callback writes one.
InitialLr == Rat(1, 100)
NoArgs == [min_lr |-> Zero, max_lr |-> Zero, num_restart_epochs |-> Zero,
           factor |-> Zero]

VARIABLES
    pc,                   \* "new", "ready" (constructed) or "failed"
    args,                 \* the constructor's arguments
    min_lr, max_lr, num_restart_epochs, factor, next_restart_epochs,
    has_lr,               \* the bound optimizer has an `lr` attribute
    lr,                   \* the optimizer's learning rate
    raised,               \* what the last operation raised: "none", "factor", "lr"
    epoch,                \* argument of the last on_epoch_begin call, -1 if none
    t,                    \* local t at the end of the last completed call
    ncalls,               \* number of on_epoch_begin calls made
    restarted,            \* the last call took the restart branch
    restarts,             \* number of restarts so far
    again,                \* the last call repeated the epoch of the call just
                          \* before it, and that call had taken the restart branch
    skipped,              \* epoch of a call made with t > period such that every
                          \* call since had a strictly larger epoch; -1 if none
    firstSkip             \* epoch of the first call made with t > period; -1 if none

vars == <<pc, args, min_lr, max_lr, num_restart_epochs, factor,
          next_restart_epochs, has_lr, lr, raised, epoch, t, ncalls,
          restarted, restarts, again, skipped, firstSkip>>

Init ==
    /\ pc = "new"
    /\ args = NoArgs
    /\ min_lr = Zero /\ max_lr = Zero /\ num_restart_epochs = Zero
    /\ factor = Zero /\ next_restart_epochs = Zero
    /\ has_lr \in BOOLEAN
    /\ lr = IF has_lr THEN InitialLr ELSE NoLr
    /\ raised = "none"
    /\ epoch = -1
    /\ t = Zero
    /\ ncalls = 0
    /\ restarted = FALSE
    /\ restarts = 0
    /\ again = FALSE
    /\ skipped = -1
    /\ firstSkip = -1

\* LearningRateWarmRestarter.__init__
New(lo, hi, p, f) ==
    /\ pc = "new"
    /\ args' = [min_lr |-> lo, max_lr |-> hi, num_restart_epochs |-> p,
                factor |-> f]
    /\ min_lr' = lo
    /\ max_lr' = hi
    /\ num_restart_epochs' = p
    /\ factor' = f
    /\ next_restart_epochs' = Zero
    /\ IF FactorInvalid(f)
       THEN pc' = "failed" /\ raised' = "factor"
       ELSE pc' = "ready" /\ raised' = "none"
    /\ UNCHANGED <<has_lr, lr, epoch, t, ncalls, restarted, restarts, again,
                   skipped, firstSkip>>

\* LearningRateWarmRestarter.on_epoch_begin
OnEpochBegin(e) ==
    /\ pc = "ready"
    /\ epoch' = e
    /\ ncalls' = ncalls + 1
    /\ again' = (e = epoch /\ restarted)
    /\ IF MissingLrAttr(has_lr)
       THEN /\ raised' = "lr"
            /\ restarted' = FALSE
            /\ UNCHANGED <<num_restart_epochs, next_restart_epochs, lr, t,
                           restarts, skipped, firstSkip>>
       ELSE LET t0 == RSub(RInt(e), next_restart_epochs)
                r == IsRestart(t0, num_restart_epochs)
                n1 == IF r THEN NextOrigin(next_restart_epochs, num_restart_epochs)
                      ELSE next_restart_epochs
                p1 == IF r THEN NextPeriod(num_restart_epochs, factor)
                      ELSE num_restart_epochs
                t1 == IF r THEN TAfterRestart(t0) ELSE t0
                over == RLt(num_restart_epochs, t0)
            IN  /\ raised' = "none"
                /\ next_restart_epochs' = n1
                /\ num_restart_epochs' = p1
                /\ t' = t1
                /\ lr' = NewLr(min_lr, max_lr, t1, p1)
                /\ restarted' = r
                /\ restarts' = IF r THEN restarts + 1 ELSE restarts
                /\ skipped' = IF skipped # -1 /\ e > skipped THEN skipped
                              ELSE IF over THEN e ELSE -1
                /\ firstSkip' = IF firstSkip = -1 /\ over THEN e ELSE firstSkip
    /\ UNCHANGED <<pc, args, min_lr, max_lr, factor, has_lr>>

\* The user constructs the callback.
Construct ==
    \E lo \in MinLrs, hi \in MaxLrs, p \in Periods, f \in Factors :
        New(lo, hi, p, f)

\* A caller that may pass any epoch, in any order.
Call ==
    /\ ncalls < MaxCalls
    /\ \E e \in 0..MaxEpoch : OnEpochBegin(e)

\* The training loop: epochs 0, 1, 2, ... in order; an exception ends the run.
FitStep ==
    /\ epoch < MaxFitEpoch
    /\ raised = "none"
    /\ OnEpochBegin(epoch + 1)

Next == Construct \/ Call
Spec == Init /\ [][Next]_vars

NextFit == Construct \/ FitStep
SpecFit == Init /\ [][NextFit]_vars

\* ------------------------------------------------------------- properties
Ready == pc = "ready"
\* A step that is one on_epoch_begin call.
IsCall == ncalls' = ncalls + 1
\* The geometric sum 1 + f + ... + f^(k-1) and the power f^k, for integers.
RECURSIVE GeomSum(_, _)
GeomSum(f, k) == IF k = 0 THEN 0 ELSE 1 + f * GeomSum(f, k - 1)
RECURSIVE Pow(_, _)
Pow(f, k) == IF k = 0 THEN 1 ELSE f * Pow(f, k - 1)

\* C1: a call whose epoch - next_restart_epochs equals num_restart_epochs ends
\* with next_restart_epochs advanced by the old period, the period multiplied
\* by factor, t = 0 and max_lr written to the optimizer; for a scheduler still
\* in its constructed state this is the call at epoch == initial period.
C1_RestartTransition ==
    [][(IsCall /\ has_lr
        /\ REq(RSub(RInt(epoch'), next_restart_epochs), num_restart_epochs))
       => /\ next_restart_epochs' = RAdd(next_restart_epochs, num_restart_epochs)
          /\ num_restart_epochs' = RMul(num_restart_epochs, factor)
          /\ t' = Zero
          /\ lr' = max_lr
          /\ restarted'
          /\ (restarts = 0 =>
                /\ RInt(epoch') = args.num_restart_epochs
                /\ num_restart_epochs'
                     = RMul(args.num_restart_epochs, args.factor))]_vars
C1_Witness ==
    /\ Ready /\ has_lr /\ restarted /\ restarts = 2
    /\ lr = max_lr /\ min_lr # max_lr /\ ~IsInt(factor)

\* C2: before any restart, a call with 0 <= epoch < period triggers no restart
\* and writes min_lr + 0.5*(max_lr-min_lr)*(1+cos(epoch/period*pi)), with the
\* true ratio of the epoch to the constructor's period.
C2_FirstPeriodCosine ==
    (Ready /\ has_lr /\ ncalls > 0 /\ restarts = 0
       /\ RLt(RInt(epoch), args.num_restart_epochs))
    => /\ next_restart_epochs = Zero
       /\ num_restart_epochs = args.num_restart_epochs
       /\ ~restarted
       /\ lr = RAdd(args.min_lr,
                    RMul(RMul(Half, RSub(args.max_lr, args.min_lr)),
                         RAdd(One, CosPi(RDiv(RInt(epoch),
                                              args.num_restart_epochs)))))
C2_Witness ==
    /\ Ready /\ has_lr /\ restarts = 0 /\ epoch = 2
    /\ args.num_restart_epochs = RInt(5)
    /\ RLt(min_lr, lr) /\ RLt(lr, max_lr)

\* C3: construction raises for every factor < 1 and no scheduler is obtained;
\* for every factor >= 1, factor == 1 included, it succeeds with
\* next_restart_epochs == 0 and the four fields equal to the arguments.
C3_Construction ==
    /\ (pc = "failed" => RLt(args.factor, One) /\ raised = "factor")
    /\ (pc # "new" /\ RLt(args.factor, One) => pc = "failed")
    /\ (pc # "new" /\ RLe(One, args.factor) => pc = "ready")
    /\ (Ready =>
          /\ RLe(One, factor)
          /\ min_lr = args.min_lr /\ max_lr = args.max_lr /\ factor = args.factor
          /\ (ncalls = 0 =>
                /\ num_restart_epochs = args.num_restart_epochs
                /\ next_restart_epochs = Zero))
C3_Witness == Ready /\ ncalls = 0 /\ factor = One /\ raised = "none"

\* C4: when the optimizer has no lr attribute, every on_epoch_begin call
\* raises, leaves num_restart_epochs and next_restart_epochs unchanged and
\* writes no learning rate, also at the restart boundary.
C4_MissingLrAttribute ==
    [][(IsCall /\ ~has_lr)
       => /\ raised' = "lr"
          /\ num_restart_epochs' = num_restart_epochs
          /\ next_restart_epochs' = next_restart_epochs
          /\ lr' = lr /\ lr' = NoLr]_vars
C4_Witness ==
    /\ Ready /\ ~has_lr /\ ncalls >= 2 /\ raised = "lr"
    /\ REq(RSub(RInt(epoch), next_restart_epochs), num_restart_epochs)

\* C5: with min_lr <= max_lr, every learning rate written lies in
\* [min_lr, max_lr], whatever epochs were passed.
C5_LrWithinBounds ==
    (Ready /\ has_lr /\ ncalls > 0 /\ RLe(min_lr, max_lr))
    => RLe(min_lr, lr) /\ RLe(lr, max_lr)
C5_Witness ==
    /\ Ready /\ has_lr /\ ncalls > 0 /\ skipped # -1
    /\ RLt(num_restart_epochs, t)
    /\ RLt(min_lr, lr) /\ RLt(lr, max_lr)

\* C6: with factor == 1 and an integer period P, a run over epochs 0, 1, 2, ...
\* keeps the period equal to P and restarts (max_lr written,
\* next_restart_epochs advanced by P) at exactly the positive multiples of P.
C6_ConstantPeriod ==
    (Ready /\ has_lr /\ ncalls > 0 /\ factor = One
       /\ IsInt(args.num_restart_epochs))
    => LET P == args.num_restart_epochs[1]
       IN  /\ num_restart_epochs = RInt(P)
           /\ (restarted <=> (epoch > 0 /\ epoch % P = 0))
           /\ next_restart_epochs = RInt((epoch \div P) * P)
           /\ restarts = epoch \div P
           /\ (restarted => lr = max_lr)
C6_Witness ==
    /\ Ready /\ has_lr /\ factor = One /\ restarted /\ restarts = 3
    /\ args.num_restart_epochs = RInt(5) /\ epoch = 15

\* C8: in a run over epochs 0, 1, 2, ..., with any positive period and any
\* factor >= 1, t never exceeds the current period: after every call
\* 0 <= t < period (t == period having triggered the restart).
C8_NeverPastPeriod ==
    (Ready /\ has_lr /\ ncalls > 0)
    => RLe(Zero, t) /\ RLt(t, num_restart_epochs)

\* C9: with integer period P and integer factor f, a run over epochs 0, 1, 2,
\* ... has its k-th restart at exactly epoch P*(1+f+...+f^(k-1)); after every
\* call next_restart_epochs <= epoch < next_restart_epochs + period and
\* period == P*f^(restarts so far).
C9_RestartSchedule ==
    (Ready /\ has_lr /\ ncalls > 0 /\ IsInt(args.num_restart_epochs)
       /\ IsInt(factor))
    => LET P == args.num_restart_epochs[1]
           f == factor[1]
       IN  /\ num_restart_epochs = RInt(P * Pow(f, restarts))
           /\ next_restart_epochs = RInt(P * GeomSum(f, restarts))
           /\ P * GeomSum(f, restarts) <= epoch
           /\ RLt(RInt(epoch), RAdd(next_restart_epochs, num_restart_epochs))
           /\ epoch < P * GeomSum(f, restarts + 1)
           /\ (restarted <=> (restarts >= 1 /\ epoch = P * GeomSum(f, restarts)))
           /\ t = RInt(epoch - P * GeomSum(f, restarts))
C9_Witness ==
    /\ Ready /\ has_lr /\ args.num_restart_epochs = RInt(5) /\ factor = Two
    /\ epoch = 15 /\ restarted /\ restarts = 2
    /\ next_restart_epochs = RInt(15) /\ num_restart_epochs = RInt(20)

\* C7 (as claimed): when on_epoch_begin(e) is called twice in a row with the
\* same e and the first call took the restart branch, the second call's
\* result (learning rate written, resulting period or next_restart_epochs)
\* differs from the first call's.
C7_SecondCallDiffers ==
    [][(IsCall /\ has_lr /\ restarted /\ epoch' = epoch)
       => \/ lr' # lr
          \/ num_restart_epochs' # num_restart_epochs
          \/ next_restart_epochs' # next_restart_epochs]_vars

\* C7 (amended): the second of two calls in a row with the same epoch, the
\* first of which took the restart branch, takes no restart, writes max_lr
\* again and leaves the period and next_restart_epochs as the first call
\* left them: only the transition differs, not the result.
C7_SecondCallSameResult ==
    [][(IsCall /\ has_lr /\ restarted /\ epoch' = epoch)
       => /\ ~restarted'
          /\ t' = Zero
          /\ lr' = lr /\ lr' = max_lr
          /\ num_restart_epochs' = num_restart_epochs
          /\ next_restart_epochs' = next_restart_epochs]_vars
C7_Witness ==
    /\ Ready /\ has_lr /\ again /\ ~restarted /\ restarts = 2
    /\ RInt(epoch) = next_restart_epochs /\ min_lr # max_lr

\* C10 (as claimed): once some call was made with epoch - next_restart_epochs
\* > period, every later call with a strictly larger epoch leaves the period
\* and next_restart_epochs unchanged.
C10_SkipNeverRecovered ==
    [][(IsCall /\ has_lr /\ firstSkip # -1 /\ epoch' > firstSkip)
       => /\ num_restart_epochs' = num_restart_epochs
          /\ next_restart_epochs' = next_restart_epochs]_vars

\* C10 (amended): a call made with epoch - next_restart_epochs > period
\* triggers no restart, and neither does any later call for as long as every
\* call made since had a strictly larger epoch than that call: the period and
\* next_restart_epochs stay unchanged and the rate is computed with
\* t > period; and any call with t # period leaves both unchanged.
C10_SkipNotRecoveredWhileIncreasing ==
    [][(IsCall /\ has_lr)
       => /\ (skipped' # -1 =>
                /\ num_restart_epochs' = num_restart_epochs
                /\ next_restart_epochs' = next_restart_epochs
                /\ ~restarted'
                /\ RLt(num_restart_epochs', t'))
          /\ (RLt(num_restart_epochs, RSub(RInt(epoch'), next_restart_epochs))
                => skipped' # -1)
          /\ (~REq(RSub(RInt(epoch'), next_restart_epochs), num_restart_epochs)
                => /\ num_restart_epochs' = num_restart_epochs
                   /\ next_restart_epochs' = next_restart_epochs)]_vars
C10_Witness ==
    /\ Ready /\ has_lr /\ skipped # -1 /\ epoch > skipped /\ ncalls >= 3
    /\ restarts >= 1 /\ RLt(num_restart_epochs, t)

====
